---- MODULE Spec2Model ----
(***************************************************************************)
(* Model of dess-backend's Vulkan Device: construction (Device::new),      *)
(* the deferred-destruction lists (DropList), the two frame contexts       *)
(* (DeviceFrame), begin_frame / submit / end_frame, and Drop for Device.   *)
(*                                                                         *)
(* Every operation is modelled at the granularity of its lock              *)
(* acquisitions and driver calls, with one program counter per caller      *)
(* thread.  Spec has a single caller thread (the frame loop); SpecMT has   *)
(* two caller threads running the same actions.  SpecAlloc is a single     *)
(* thread that runs frames and allocates; SpecLocks is two threads that    *)
(* retire, begin and end frames and allocate; SpecDL is a DropList used    *)
(* on its own.                                                             *)
(***************************************************************************)
EXTENDS Integers, Sequences, FiniteSets, TLC

\* ------------------------------------------------------------- bounds
\* Number of retire calls (DropList::drop_*) in a run.
MaxRes == 2
\* Number of successful begin_frame calls in a run.
MaxFrames == 2
\* Number of retire calls in a run of the two-thread specification.
MaxResMT == 1

\* ---------------------------------------------------------- constants
\* Device.frames is an array of two slots.
NumFrames == 2

Threads == {"t1", "t2"}
NoThread == "none"
\* The owner of the locks taken inside Drop for Device.
DropOwner == "drop"

\* The two DeviceFrame values created by Device::new (frame1, frame2).
Ctx == 1..NumFrames
Slots == 0..(NumFrames - 1)
\* The two command buffers of a DeviceFrame.
CBs == {"main_cb", "presentation_cb"}

Kinds == {"image", "buffer", "memory", "descriptor_set"}

\* Who destroyed a retired resource: nobody yet, the reset step of the n-th
\* begin_frame call, or Drop for Device.
NotDestroyed == <<"none", 0>>
ByReset(n) == <<"reset", n>>
ByTeardown == <<"teardown", 0>>
\* ... or a cleanup call made by the owner of a DropList of its own.
ByCaller == <<"caller", 0>>

\* ------------------------------------------------------------ DropList
DropListDefault ==
    [images |-> <<>>, buffers |-> <<>>, memory |-> <<>>, descriptors |-> <<>>]

drop_image(dl, image) == [dl EXCEPT !.images = Append(@, image)]
drop_buffer(dl, buffer) == [dl EXCEPT !.buffers = Append(@, buffer)]
drop_descriptor_set(dl, ds) == [dl EXCEPT !.descriptors = Append(@, ds)]
drop_memory(dl, memory) == [dl EXCEPT !.memory = Append(@, memory)]

drop_kind(dl, kind, x) ==
    CASE kind = "image" -> drop_image(dl, x)
      [] kind = "buffer" -> drop_buffer(dl, x)
      [] kind = "memory" -> drop_memory(dl, x)
      [] kind = "descriptor_set" -> drop_descriptor_set(dl, x)

Range(s) == {s[i] : i \in DOMAIN s}

\* Every entry a DropList holds.
Entries(dl) ==
    Range(dl.images) \cup Range(dl.buffers) \cup Range(dl.memory)
        \cup Range(dl.descriptors)

\* The driver and allocator calls one DropList::cleanup makes on list dl:
\* one destroy_image per image, one destroy_buffer per buffer, one dealloc
\* per memory block, and one descriptor_allocator.free that is handed the
\* drained descriptor sets whether or not there are any.
CleanupCalls(dl) ==
    [destroy_image |-> Len(dl.images), destroy_buffer |-> Len(dl.buffers),
     dealloc |-> Len(dl.memory), free |-> 1, freed_sets |-> Len(dl.descriptors)]

\* No cleanup has run.
NoCalls ==
    [destroy_image |-> 0, destroy_buffer |-> 0, dealloc |-> 0, free |-> 0,
     freed_sets |-> 0]

\* ------------------------------------------------------- GPU objects
\* A GPU object is <<kind, frame context (0 = none), name>>.
DeviceObj == <<"device", 0, "raw">>
PoolObj(c) == <<"command_pool", c, "pool">>
SemObj(c, n) == <<"semaphore", c, n>>
CbObj(c, cb) == <<"command_buffer", c, cb>>
FenceObj(c, cb) == <<"fence", c, cb>>

Filters == {"NEAREST", "LINEAR"}
MipmapModes == {"NEAREST", "LINEAR"}
AddressModes == {"REPEAT", "CLAMP_TO_EDGE"}
SamplerName(desc) == desc[1] \o "/" \o desc[2] \o "/" \o desc[3]
SamplerObj(desc) == <<"sampler", 0, SamplerName(desc)>>

\* Mutant: the loop over address_modes is missing, REPEAT is used.
SamplerOrderRepeatOnly ==
    << <<"NEAREST", "NEAREST", "REPEAT">>, <<"NEAREST", "LINEAR", "REPEAT">>,
       <<"LINEAR", "NEAREST", "REPEAT">>, <<"LINEAR", "LINEAR", "REPEAT">> >>

\* The loop nest of create_samplers, in iteration order.
SamplerOrder ==
    << <<"NEAREST", "NEAREST", "REPEAT">>, <<"NEAREST", "NEAREST", "CLAMP_TO_EDGE">>,
       <<"NEAREST", "LINEAR", "REPEAT">>, <<"NEAREST", "LINEAR", "CLAMP_TO_EDGE">>,
       <<"LINEAR", "NEAREST", "REPEAT">>, <<"LINEAR", "NEAREST", "CLAMP_TO_EDGE">>,
       <<"LINEAR", "LINEAR", "REPEAT">>, <<"LINEAR", "LINEAR", "CLAMP_TO_EDGE">> >>

\* The driver calls of DeviceFrame::new for context c, in order.  Each
\* entry is <<call, object created>>.
FrameNewCalls(c) ==
    << <<"create_command_pool", PoolObj(c)>>,
       <<"create_semaphore", SemObj(c, "swapchain_acquired")>>,
       <<"create_semaphore", SemObj(c, "rendering_finished")>>,
       <<"allocate_command_buffers", CbObj(c, "main_cb")>>,
       <<"create_fence", FenceObj(c, "main_cb")>>,
       <<"allocate_command_buffers", CbObj(c, "presentation_cb")>>,
       <<"create_fence", FenceObj(c, "presentation_cb")>> >>

NoObj == <<"none", 0, "none">>

CreateSamplerCalls ==
    [i \in 1..Len(SamplerOrder) |-> <<"create_sampler", SamplerObj(SamplerOrder[i])>>]

\* The fallible calls of Device::new, in order.
DeviceNewCalls ==
    << <<"create_device", DeviceObj>> >>
        \o FrameNewCalls(1) \o FrameNewCalls(2)
        \o << <<"device_properties", NoObj>> >>
        \o CreateSamplerCalls

\* ------------------------------------------------------------ errors
\* A call returned Ok, or has not returned.
NoError == <<"Ok">>

\* Status codes a failing driver call returns (ash::vk::Result).
VkErrors == {"ERROR_DEVICE_LOST", "ERROR_OUT_OF_HOST_MEMORY"}
\* BackendError::VulkanError, built from a vk::Result by `?` (#[from]).
VulkanError(code) == <<"VulkanError", code>>

\* Requests passed to allocate_memory and errors its allocator returns
\* (gpu_alloc::Request, gpu_alloc::AllocationError).
Requests == {"request_a", "request_b"}
NoRequest == "none"
AllocErrors == {"OutOfDeviceMemory", "NoCompatibleMemoryTypes"}
\* Mutant: the allocator's error is passed on through the generic
\* conversion of `?`, like a driver status.
MemoryAllocationAsVulkanError(err, request) == <<"VulkanError", err>>

\* BackendError::MemoryAllocationFailed(err, request), built by map_err.
MemoryAllocationFailed(err, request) == <<"MemoryAllocationFailed", err, request>>

\* Errors the descriptor allocator returns (gpu_descriptor::AllocationError)
\* and the BackendError that `?` makes of one in allocate_descriptors.
DescriptorErrors == {"OutOfDeviceMemory", "Fragmentation"}
DescriptorAllocationFailed(err) == <<"DescriptorAllocationFailed", err>>

\* ------------------------------------------------------------- locks
\* One parking_lot::Mutex per Device.frames slot, one per DeviceFrame
\* drop_list, and one each for current_drop_list and the two allocators.
FrameLock(slot) == <<"frames", slot>>
ListLock(c) == <<"drop_list", c>>
CurrentLock == <<"current_drop_list", 0>>
\* Mutant: the memory allocator shares the mutex of current_drop_list.
MemoryLockShared == <<"current_drop_list", 0>>
MemoryLock == <<"memory_allocator", 0>>
DescriptorLock == <<"descriptor_allocator", 0>>
Locks ==
    {FrameLock(s) : s \in Slots} \cup {ListLock(c) : c \in Ctx}
        \cup {CurrentLock, MemoryLock, DescriptorLock}

VARIABLES
    devState,             \* "new", "failed", "ready", "teardown", "gone", "aborted"
    newPc,                \* index of the next call of DeviceNewCalls
    destroys,             \* GPU object created so far -> number of times destroyed
    samplers,             \* Device.samplers: SamplerDesc -> sampler object
    frames,               \* Device.frames: slot -> DeviceFrame held in that slot
    strong,               \* Arc strong count of each DeviceFrame
    drop_list,            \* DeviceFrame.drop_list of each DeviceFrame
    current_drop_list,    \* Device.current_drop_list
    memory_allocator,     \* "live" or "cleaned"
    descriptor_allocator, \* "live" or "cleaned"
    fence,                \* fence[c][cb]: TRUE when signaled
    pending,              \* pending[c][cb]: 0, or the frame number whose submit is executing
    lockOwner,            \* lock -> thread holding it, or NoThread
    pc,                   \* thread -> position inside the operation it runs;
                          \* "bf_panicked" / "ef_panicked" once an expect or
                          \* unwrap of begin_frame / end_frame has failed in it:
                          \* the panic is unwinding the thread, which ends
                          \* unless the caller catches the panic
    handle,               \* thread -> DeviceFrame of the Frame it holds, 0 if none
    leaked,               \* DeviceFrame -> Frames leaked by mem::forget
    beginCount,           \* number of begin_frame calls that returned Ok
    retiredIn,            \* resource -> beginCount when it was retired
    kindOf,               \* resource -> the DropList::drop_* it was retired with
    destroyedBy,          \* resource -> who destroyed it
    destroyCount,         \* resource -> number of destroy calls made on it
    abandoned,            \* "none", or how a Frame was given up without Frame::end
                          \* since the last begin_frame returned: "dropped", "leaked"
    tdPc,                 \* position inside Drop for Device
    tdLog,                \* the steps Drop for Device has performed, in order
    lateReturn,           \* an entry was handed to an allocator after its cleanup
    lastCleanup,          \* the calls the most recent DropList::cleanup made
    prevCtx,              \* DeviceFrame of the latest begin_frame that returned Ok, 0 if none
    own_list,             \* a DropList owned by a caller of the crate
    result,               \* thread -> the Err its call has just returned, NoError otherwise
    request               \* thread -> the request of its running allocate_memory call

devVars == <<devState, newPc, destroys, samplers>>
frameVars == <<frames, strong, handle, leaked>>
listVars == <<drop_list, current_drop_list>>
allocVars == <<memory_allocator, descriptor_allocator, lateReturn, lastCleanup>>
gpuVars == <<fence, pending>>
threadVars == <<lockOwner, pc>>
resVars == <<retiredIn, kindOf, destroyedBy, destroyCount>>
histVars == <<beginCount, abandoned, prevCtx>>
tdVars == <<tdPc, tdLog>>
callVars == <<own_list, result, request>>

vars ==
    <<devVars, frameVars, listVars, allocVars, gpuVars, threadVars, resVars,
      histVars, tdVars, callVars>>

Init ==
    /\ devState = "new"
    /\ newPc = 1
    /\ destroys = << >>
    /\ samplers = << >>
    /\ frames = [s \in Slots |-> s + 1]
    /\ strong = [c \in Ctx |-> 0]
    /\ drop_list = [c \in Ctx |-> DropListDefault]
    /\ current_drop_list = DropListDefault
    /\ memory_allocator = "live"
    /\ descriptor_allocator = "live"
    /\ fence = [c \in Ctx |-> [cb \in CBs |-> FALSE]]
    /\ pending = [c \in Ctx |-> [cb \in CBs |-> 0]]
    /\ lockOwner = [l \in Locks |-> NoThread]
    /\ pc = [t \in Threads |-> "idle"]
    /\ handle = [t \in Threads |-> 0]
    /\ leaked = [c \in Ctx |-> 0]
    /\ beginCount = 0
    /\ retiredIn = << >>
    /\ kindOf = << >>
    /\ destroyedBy = << >>
    /\ destroyCount = << >>
    /\ abandoned = "none"
    /\ tdPc = 0
    /\ tdLog = << >>
    /\ lateReturn = FALSE
    /\ lastCleanup = NoCalls
    /\ prevCtx = 0
    /\ own_list = DropListDefault
    /\ result = [t \in Threads |-> NoError]
    /\ request = [t \in Threads |-> NoRequest]

\* --------------------------------------------------------- Device::new
\* vk::FenceCreateFlags::SIGNALED in CommandBuffer::new.
FenceCreatedSignaled == TRUE

\* One fallible call of Device::new succeeds.  After the last one the
\* Device value is built: both Arc<DeviceFrame> have one owner.
device_new_call ==
    /\ devState = "new"
    /\ LET call == DeviceNewCalls[newPc]
           obj == call[2]
       IN /\ destroys' = IF obj = NoObj THEN destroys ELSE destroys @@ (obj :> 0)
          /\ fence' = IF call[1] = "create_fence"
                         THEN [fence EXCEPT ![obj[2]][obj[3]] = FenceCreatedSignaled]
                         ELSE fence
          /\ samplers' = IF call[1] = "create_sampler"
                            THEN (SamplerOrder[newPc - (Len(DeviceNewCalls) - Len(SamplerOrder))]
                                      :> obj) @@ samplers
                            ELSE samplers
    /\ newPc' = newPc + 1
    /\ devState' = IF newPc = Len(DeviceNewCalls) THEN "ready" ELSE "new"
    /\ strong' = IF newPc = Len(DeviceNewCalls) THEN [c \in Ctx |-> 1] ELSE strong
    /\ UNCHANGED <<frames, handle, leaked, listVars, allocVars, pending,
                   threadVars, resVars, histVars, tdVars, callVars>>

\* One fallible call of Device::new fails: `?` returns the error at once.
\* Nothing created so far is destroyed on that path.
device_new_fail ==
    /\ devState = "new"
    /\ devState' = "failed"
    /\ UNCHANGED <<newPc, destroys, samplers, frameVars, listVars, allocVars,
                   gpuVars, threadVars, resVars, histVars, tdVars, callVars>>

\* ----------------------------------------------------------------- GPU
\* The queue finishes the work submitted with command buffer cb of frame
\* context c and signals the fence passed to that submit.
gpu_complete(c, cb) ==
    /\ devState \in {"ready", "teardown"}
    /\ pending[c][cb] # 0
    /\ pending' = [pending EXCEPT ![c][cb] = 0]
    /\ fence' = [fence EXCEPT ![c][cb] = TRUE]
    /\ UNCHANGED <<devVars, frameVars, listVars, allocVars, threadVars, resVars,
                   histVars, tdVars, callVars>>

\* Mutant: Drop for Device goes on without waiting for the queue.
DeviceIdleNotAwaited == TRUE

\* device_wait_idle returns: nothing is executing any more.
DeviceIdle == \A c \in Ctx, cb \in CBs : pending[c][cb] = 0

\* --------------------------------------------------------- get_sampler
\* Values a SamplerDesc can be built from (vk::Filter, vk::SamplerMipmapMode,
\* vk::SamplerAddressMode).
AllFilters == {"NEAREST", "LINEAR", "CUBIC_EXT"}
AllMipmapModes == {"NEAREST", "LINEAR"}
AllAddressModes ==
    {"REPEAT", "MIRRORED_REPEAT", "CLAMP_TO_EDGE", "CLAMP_TO_BORDER",
     "MIRROR_CLAMP_TO_EDGE"}
SamplerDescs == AllFilters \X AllMipmapModes \X AllAddressModes

\* Option::None
None == <<"None">>

\* Device::get_sampler: self.samplers.get(&desc).copied()
get_sampler(desc) == IF desc \in DOMAIN samplers THEN samplers[desc] ELSE None

\* ------------------------------------------------------ retire, submit
Idle(t) == devState = "ready" /\ pc[t] = "idle"
\* The expect or unwrap of begin_frame / end_frame has panicked in thread t;
\* the guards of the call are dropped and no call of t is running.
Panicked(t) == pc[t] \in {"bf_panicked", "ef_panicked"}
Free(l) == lockOwner[l] = NoThread
\* A guard is taken by lock(), and guards are dropped.
Release(owner, ls) == [l \in Locks |-> IF l \in ls THEN NoThread ELSE owner[l]]
Acquire(owner, l, t) == [owner EXCEPT ![l] = t]

\* Device::with_drop_list: self.current_drop_list.lock()
with_drop_list_lock(t, maxRes) ==
    /\ Idle(t)
    /\ Free(CurrentLock)
    /\ Len(retiredIn) < maxRes
    /\ lockOwner' = Acquire(lockOwner, CurrentLock, t)
    /\ pc' = [pc EXCEPT ![t] = "wdl_cb"]
    /\ UNCHANGED <<devVars, frameVars, listVars, allocVars, gpuVars, resVars,
                   histVars, tdVars, callVars>>

\* Mutant: the closure is handed the drop_list of the frame in slot 0.
with_drop_list_of_frame(t, maxRes) ==
    /\ pc[t] = "wdl_cb"
    /\ Len(retiredIn) < maxRes
    /\ \E kind \in Kinds :
          /\ drop_list' = [drop_list EXCEPT ![frames[0]] =
                               drop_kind(@, kind, Len(retiredIn) + 1)]
          /\ kindOf' = Append(kindOf, kind)
    /\ retiredIn' = Append(retiredIn, beginCount)
    /\ destroyedBy' = Append(destroyedBy, NotDestroyed)
    /\ destroyCount' = Append(destroyCount, 0)
    /\ lockOwner' = Release(lockOwner, {CurrentLock})
    /\ pc' = [pc EXCEPT ![t] = "idle"]
    /\ UNCHANGED <<devVars, frameVars, current_drop_list, allocVars, gpuVars,
                   histVars, tdVars, callVars>>

\* Device::with_drop_list: the closure is called with the locked list and
\* calls one DropList::drop_*; the guard is dropped.
with_drop_list(t, maxRes) ==
    /\ pc[t] = "wdl_cb"
    /\ Len(retiredIn) < maxRes
    /\ \E kind \in Kinds :
          /\ current_drop_list' = drop_kind(current_drop_list, kind, Len(retiredIn) + 1)
          /\ kindOf' = Append(kindOf, kind)
    /\ retiredIn' = Append(retiredIn, beginCount)
    /\ destroyedBy' = Append(destroyedBy, NotDestroyed)
    /\ destroyCount' = Append(destroyCount, 0)
    /\ lockOwner' = Release(lockOwner, {CurrentLock})
    /\ pc' = [pc EXCEPT ![t] = "idle"]
    /\ UNCHANGED <<devVars, frameVars, drop_list, allocVars, gpuVars,
                   histVars, tdVars, callVars>>

\* What queue_submit2 leaves in the fence it is given.  No code of the
\* crate ever resets a fence, so the fence was signaled when it was passed
\* in; the driver's behaviour is then undefined: the fence may stay
\* signaled, or become unsignaled until the work completes.
FenceAfterSubmit(signaled) == IF signaled THEN {TRUE, FALSE} ELSE {FALSE}

\* Frame::submit: queue_submit2 succeeds.
submit(t, cb) ==
    /\ Idle(t)
    /\ handle[t] # 0
    /\ pending' = [pending EXCEPT ![handle[t]][cb] = beginCount]
    /\ \E f \in FenceAfterSubmit(fence[handle[t]][cb]) :
          fence' = [fence EXCEPT ![handle[t]][cb] = f]
    /\ UNCHANGED <<devVars, frameVars, listVars, allocVars, threadVars, resVars,
                   histVars, tdVars, callVars>>

\* Frame::submit: queue_submit2 fails; `?` returns the status code as a
\* BackendError.  Nothing was queued and the fence is untouched.
submit_fail(t) ==
    /\ Idle(t)
    /\ handle[t] # 0
    /\ \E code \in VkErrors : result' = [result EXCEPT ![t] = VulkanError(code)]
    /\ pc' = [pc EXCEPT ![t] = "returned"]
    /\ UNCHANGED <<devVars, frameVars, listVars, allocVars, gpuVars, lockOwner,
                   resVars, histVars, tdVars, own_list, request>>

\* The caller has the Err of its call and goes on.
caller_continues(t) ==
    /\ pc[t] = "returned"
    /\ result' = [result EXCEPT ![t] = NoError]
    /\ pc' = [pc EXCEPT ![t] = "idle"]
    /\ UNCHANGED <<devVars, frameVars, listVars, allocVars, gpuVars, lockOwner,
                   resVars, histVars, tdVars, own_list, request>>

\* ---------------------------------------------------------- allocators
\* Device::allocate_memory: self.memory_allocator.lock()
allocate_memory_lock(t, req) ==
    /\ Idle(t)
    /\ Free(MemoryLock)
    /\ lockOwner' = Acquire(lockOwner, MemoryLock, t)
    /\ request' = [request EXCEPT ![t] = req]
    /\ pc' = [pc EXCEPT ![t] = "am_alloc"]
    /\ UNCHANGED <<devVars, frameVars, listVars, allocVars, gpuVars, resVars,
                   histVars, tdVars, own_list, result>>

\* Device::allocate_memory: alloc returns Ok(block); the guard is dropped
\* and the block returned.
allocate_memory_ok(t) ==
    /\ pc[t] = "am_alloc"
    /\ lockOwner' = Release(lockOwner, {MemoryLock})
    /\ request' = [request EXCEPT ![t] = NoRequest]
    /\ pc' = [pc EXCEPT ![t] = "idle"]
    /\ UNCHANGED <<devVars, frameVars, listVars, allocVars, gpuVars, resVars,
                   histVars, tdVars, own_list, result>>

\* Device::allocate_memory: alloc returns Err(err); the guard is dropped
\* and map_err wraps err and the request.
allocate_memory_fail(t) ==
    /\ pc[t] = "am_alloc"
    /\ \E err \in AllocErrors :
          result' = [result EXCEPT ![t] = MemoryAllocationFailed(err, request[t])]
    /\ lockOwner' = Release(lockOwner, {MemoryLock})
    /\ request' = [request EXCEPT ![t] = NoRequest]
    /\ pc' = [pc EXCEPT ![t] = "returned"]
    /\ UNCHANGED <<devVars, frameVars, listVars, allocVars, gpuVars, resVars,
                   histVars, tdVars, own_list>>

\* Device::allocate_descriptors: self.descriptor_allocator.lock()
allocate_descriptors_lock(t) ==
    /\ Idle(t)
    /\ Free(DescriptorLock)
    /\ lockOwner' = Acquire(lockOwner, DescriptorLock, t)
    /\ pc' = [pc EXCEPT ![t] = "ad_allocate"]
    /\ UNCHANGED <<devVars, frameVars, listVars, allocVars, gpuVars, resVars,
                   histVars, tdVars, callVars>>

\* Device::allocate_descriptors: allocate returns Ok(sets); the guard is
\* dropped and the sets returned.
allocate_descriptors_ok(t) ==
    /\ pc[t] = "ad_allocate"
    /\ lockOwner' = Release(lockOwner, {DescriptorLock})
    /\ pc' = [pc EXCEPT ![t] = "idle"]
    /\ UNCHANGED <<devVars, frameVars, listVars, allocVars, gpuVars, resVars,
                   histVars, tdVars, callVars>>

\* Device::allocate_descriptors: allocate returns Err(err); the guard is
\* dropped and `?` returns the error.
allocate_descriptors_fail(t) ==
    /\ pc[t] = "ad_allocate"
    /\ \E err \in DescriptorErrors :
          result' = [result EXCEPT ![t] = DescriptorAllocationFailed(err)]
    /\ lockOwner' = Release(lockOwner, {DescriptorLock})
    /\ pc' = [pc EXCEPT ![t] = "returned"]
    /\ UNCHANGED <<devVars, frameVars, listVars, allocVars, gpuVars, resVars,
                   histVars, tdVars, own_list, request>>

\* ------------------------------------------------------------- cleanup
\* Mutant: the memory collection is emptied without a dealloc per block.
cleanupSkipsMemory(dl, who) ==
    /\ destroyedBy' =
          [r \in DOMAIN destroyedBy |->
              IF r \in Entries(dl) \ Range(dl.memory) THEN who ELSE destroyedBy[r]]
    /\ destroyCount' =
          [r \in DOMAIN destroyCount |->
              IF r \in Entries(dl) \ Range(dl.memory)
                  THEN destroyCount[r] + 1 ELSE destroyCount[r]]
    /\ lateReturn' =
          \/ lateReturn
          \/ dl.descriptors # << >> /\ descriptor_allocator = "cleaned"
    /\ lastCleanup' = [CleanupCalls(dl) EXCEPT !.dealloc = 0]

\* DropList::cleanup on list dl, run by `who`: every entry of the four
\* collections is destroyed (images and buffers by the device, memory by
\* memory_allocator.dealloc, descriptor sets by descriptor_allocator.free).
\* The caller's list is drained to DropListDefault.
cleanup(dl, who) ==
    /\ destroyedBy' =
          [r \in DOMAIN destroyedBy |->
              IF r \in Entries(dl) THEN who ELSE destroyedBy[r]]
    /\ destroyCount' =
          [r \in DOMAIN destroyCount |->
              IF r \in Entries(dl) THEN destroyCount[r] + 1 ELSE destroyCount[r]]
    /\ lateReturn' =
          \/ lateReturn
          \/ dl.memory # << >> /\ memory_allocator = "cleaned"
          \/ dl.descriptors # << >> /\ descriptor_allocator = "cleaned"
    /\ lastCleanup' = CleanupCalls(dl)

\* A caller's own DropList (the type and its methods are exported by
\* lib.rs): one DropList::drop_* call on it.
droplist_drop(kind) ==
    /\ Len(retiredIn) < MaxRes
    /\ own_list' = drop_kind(own_list, kind, Len(retiredIn) + 1)
    /\ kindOf' = Append(kindOf, kind)
    /\ retiredIn' = Append(retiredIn, 0)
    /\ destroyedBy' = Append(destroyedBy, NotDestroyed)
    /\ destroyCount' = Append(destroyCount, 0)
    /\ UNCHANGED <<devVars, frameVars, listVars, allocVars, gpuVars, threadVars,
                   histVars, tdVars, result, request>>

\* DropList::cleanup on the caller's own DropList.
droplist_cleanup ==
    /\ cleanup(own_list, ByCaller)
    /\ own_list' = DropListDefault
    /\ UNCHANGED <<devVars, frameVars, listVars, memory_allocator,
                   descriptor_allocator, gpuVars, threadVars, retiredIn, kindOf,
                   histVars, tdVars, result, request>>

\* --------------------------------------------------------- begin_frame
\* Mutant: the exclusivity check is left out.
IsUniqueUnchecked(c) == TRUE

\* Mutant: the exclusivity check tolerates one other owner of the Arc.
IsUniqueOffByOne(c) == strong[c] <= 2

\* Arc::get_mut succeeds only when the Arc has a single owner.
IsUnique(c) == strong[c] = 1

\* Mutant: only main_cb.fence is waited for.
FencesSignaledMainOnly(c) == fence[c]["main_cb"]

\* wait_for_fences(&[main_cb.fence, presentation_cb.fence], true, u64::MAX)
\* returns Ok only when both fences are signaled.
FencesSignaled(c) == fence[c]["main_cb"] /\ fence[c]["presentation_cb"]

\* Mutant: the frame's list becomes a copy of the current list, which
\* keeps its entries.
swap_drop_lists_copying(frame_drop_list, current) == <<current, current>>

\* mem::swap(&mut frame_drop_list, &mut current_drop_list): the arguments
\* are the two MutexGuard locals, so the guards trade places and the
\* DropLists behind them keep their contents.  Result: <<frame's list,
\* current list>>.
swap_drop_lists(frame_drop_list, current) == <<frame_drop_list, current>>

\* let mut frame = self.frames[0].lock();
begin_frame_lock(t) ==
    /\ Idle(t)
    /\ beginCount < MaxFrames
    /\ Free(FrameLock(0))
    /\ lockOwner' = Acquire(lockOwner, FrameLock(0), t)
    /\ pc' = [pc EXCEPT ![t] = "bf_get_mut"]
    /\ UNCHANGED <<devVars, frameVars, listVars, allocVars, gpuVars, resVars,
                   histVars, tdVars, callVars>>

\* Arc::get_mut(&mut frame).expect("Frame is used by something, ...")
begin_frame_get_mut(t) ==
    /\ pc[t] = "bf_get_mut"
    /\ IF IsUnique(frames[0])
         THEN /\ pc' = [pc EXCEPT ![t] = "bf_wait"]
              /\ UNCHANGED lockOwner
         ELSE /\ pc' = [pc EXCEPT ![t] = "bf_panicked"]
              /\ lockOwner' = Release(lockOwner, {FrameLock(0)})
    /\ UNCHANGED <<devVars, frameVars, listVars, allocVars, gpuVars, resVars,
                   histVars, tdVars, callVars>>

\* wait_for_fences returns Ok.
begin_frame_wait(t) ==
    /\ pc[t] = "bf_wait"
    /\ FencesSignaled(frames[0])
    /\ pc' = [pc EXCEPT ![t] = "bf_lock_memory"]
    /\ UNCHANGED <<devVars, frameVars, listVars, allocVars, gpuVars, lockOwner,
                   resVars, histVars, tdVars, callVars>>

\* wait_for_fences returns an error; `?` returns it as a BackendError,
\* dropping the guard.
begin_frame_wait_fail(t) ==
    /\ pc[t] = "bf_wait"
    /\ \E code \in VkErrors : result' = [result EXCEPT ![t] = VulkanError(code)]
    /\ pc' = [pc EXCEPT ![t] = "returned"]
    /\ lockOwner' = Release(lockOwner, {FrameLock(0)})
    /\ UNCHANGED <<devVars, frameVars, listVars, allocVars, gpuVars, resVars,
                   histVars, tdVars, own_list, request>>

\* &mut self.memory_allocator.lock(), first argument of frame.reset
begin_frame_lock_memory(t) ==
    /\ pc[t] = "bf_lock_memory"
    /\ Free(MemoryLock)
    /\ lockOwner' = Acquire(lockOwner, MemoryLock, t)
    /\ pc' = [pc EXCEPT ![t] = "bf_lock_descriptor"]
    /\ UNCHANGED <<devVars, frameVars, listVars, allocVars, gpuVars, resVars,
                   histVars, tdVars, callVars>>

\* &mut self.descriptor_allocator.lock(), second argument of frame.reset
begin_frame_lock_descriptor(t) ==
    /\ pc[t] = "bf_lock_descriptor"
    /\ Free(DescriptorLock)
    /\ lockOwner' = Acquire(lockOwner, DescriptorLock, t)
    /\ pc' = [pc EXCEPT ![t] = "bf_reset_pool"]
    /\ UNCHANGED <<devVars, frameVars, listVars, allocVars, gpuVars, resVars,
                   histVars, tdVars, callVars>>

\* DeviceFrame::reset: reset_command_pool returns Ok.
begin_frame_reset_pool(t) ==
    /\ pc[t] = "bf_reset_pool"
    /\ pc' = [pc EXCEPT ![t] = "bf_cleanup"]
    /\ UNCHANGED <<devVars, frameVars, listVars, allocVars, gpuVars, lockOwner,
                   resVars, histVars, tdVars, callVars>>

\* Mutant: DeviceFrame::reset cleans up the drop_list before it resets the
\* pool, so the list is drained when reset_command_pool fails.
begin_frame_reset_pool_fail_after_cleanup(t) ==
    /\ pc[t] = "bf_reset_pool"
    /\ Free(ListLock(frames[0]))
    /\ cleanup(drop_list[frames[0]], ByReset(beginCount + 1))
    /\ drop_list' = [drop_list EXCEPT ![frames[0]] = DropListDefault]
    /\ \E code \in VkErrors : result' = [result EXCEPT ![t] = VulkanError(code)]
    /\ pc' = [pc EXCEPT ![t] = "returned"]
    /\ lockOwner' = Release(lockOwner, {FrameLock(0), MemoryLock, DescriptorLock})
    /\ UNCHANGED <<devVars, frameVars, current_drop_list, memory_allocator,
                   descriptor_allocator, gpuVars, retiredIn, kindOf, histVars,
                   tdVars, own_list, request>>

\* DeviceFrame::reset: reset_command_pool fails; reset and begin_frame
\* return the error as a BackendError, dropping the three guards.
begin_frame_reset_pool_fail(t) ==
    /\ pc[t] = "bf_reset_pool"
    /\ \E code \in VkErrors : result' = [result EXCEPT ![t] = VulkanError(code)]
    /\ pc' = [pc EXCEPT ![t] = "returned"]
    /\ lockOwner' = Release(lockOwner, {FrameLock(0), MemoryLock, DescriptorLock})
    /\ UNCHANGED <<devVars, frameVars, listVars, allocVars, gpuVars, resVars,
                   histVars, tdVars, own_list, request>>

\* DeviceFrame::reset: self.drop_list.lock().cleanup(...), then the end of
\* the frame.reset(...) statement drops the two allocator guards.
begin_frame_cleanup(t) ==
    /\ pc[t] = "bf_cleanup"
    /\ Free(ListLock(frames[0]))
    /\ cleanup(drop_list[frames[0]], ByReset(beginCount + 1))
    /\ drop_list' = [drop_list EXCEPT ![frames[0]] = DropListDefault]
    /\ lockOwner' = Release(lockOwner, {MemoryLock, DescriptorLock})
    /\ pc' = [pc EXCEPT ![t] = "bf_lock_frame_list"]
    /\ UNCHANGED <<devVars, frameVars, current_drop_list, memory_allocator,
                   descriptor_allocator, gpuVars, retiredIn, kindOf, histVars, tdVars, callVars>>

\* let mut frame_drop_list = frame.drop_list.lock();
begin_frame_lock_frame_list(t) ==
    /\ pc[t] = "bf_lock_frame_list"
    /\ Free(ListLock(frames[0]))
    /\ lockOwner' = Acquire(lockOwner, ListLock(frames[0]), t)
    /\ pc' = [pc EXCEPT ![t] = "bf_swap"]
    /\ UNCHANGED <<devVars, frameVars, listVars, allocVars, gpuVars, resVars,
                   histVars, tdVars, callVars>>

\* let mut current_drop_list = self.current_drop_list.lock(); mem::swap(..);
\* the block ends and both guards are dropped.
begin_frame_swap(t) ==
    /\ pc[t] = "bf_swap"
    /\ Free(CurrentLock)
    /\ LET swapped == swap_drop_lists(drop_list[frames[0]], current_drop_list)
       IN /\ drop_list' = [drop_list EXCEPT ![frames[0]] = swapped[1]]
          /\ current_drop_list' = swapped[2]
    /\ lockOwner' = Release(lockOwner, {ListLock(frames[0])})
    /\ pc' = [pc EXCEPT ![t] = "bf_return"]
    /\ UNCHANGED <<devVars, frameVars, allocVars, gpuVars, resVars,
                   histVars, tdVars, callVars>>

\* Ok(frame.clone()): the Frame handed to the caller is a second owner of
\* the Arc; the frames[0] guard is dropped.
begin_frame_return(t) ==
    /\ pc[t] = "bf_return"
    /\ strong' = [strong EXCEPT ![frames[0]] = @ + 1]
    /\ handle' = [handle EXCEPT ![t] = frames[0]]
    /\ beginCount' = beginCount + 1
    /\ lockOwner' = Release(lockOwner, {FrameLock(0)})
    /\ pc' = [pc EXCEPT ![t] = "idle"]
    /\ abandoned' = "none"
    /\ prevCtx' = frames[0]
    /\ UNCHANGED <<devVars, frames, leaked, listVars, allocVars, gpuVars, resVars,
                   tdVars, callVars>>

\* ----------------------------------------------------------- end_frame
\* mem::swap(&mut frame0, &mut frame1): the arguments are the two local
\* `&mut DeviceFrame` bindings, so the bindings trade places and the
\* DeviceFrames behind Device.frames stay where they are.
swap_frames(fr) == fr

\* Frame::end -> Device::end_frame: drop(frame) releases the Frame's Arc.
end_frame_drop(t) ==
    /\ Idle(t)
    /\ handle[t] # 0
    /\ strong' = [strong EXCEPT ![handle[t]] = @ - 1]
    /\ handle' = [handle EXCEPT ![t] = 0]
    /\ pc' = [pc EXCEPT ![t] = "ef_lock0"]
    /\ UNCHANGED <<devVars, frames, leaked, listVars, allocVars, gpuVars, lockOwner,
                   resVars, histVars, tdVars, callVars>>

\* let mut frame = self.frames[0].lock();
end_frame_lock0(t) ==
    /\ pc[t] = "ef_lock0"
    /\ Free(FrameLock(0))
    /\ lockOwner' = Acquire(lockOwner, FrameLock(0), t)
    /\ pc' = [pc EXCEPT ![t] = "ef_get_mut0"]
    /\ UNCHANGED <<devVars, frameVars, listVars, allocVars, gpuVars, resVars,
                   histVars, tdVars, callVars>>

\* Arc::get_mut(&mut frame).expect("Can't finish frame - ...")
end_frame_get_mut0(t) ==
    /\ pc[t] = "ef_get_mut0"
    /\ IF IsUnique(frames[0])
         THEN /\ pc' = [pc EXCEPT ![t] = "ef_lock1"]
              /\ UNCHANGED lockOwner
         ELSE /\ pc' = [pc EXCEPT ![t] = "ef_panicked"]
              /\ lockOwner' = Release(lockOwner, {FrameLock(0)})
    /\ UNCHANGED <<devVars, frameVars, listVars, allocVars, gpuVars, resVars,
                   histVars, tdVars, callVars>>

\* Mutant: the second lock is taken on frames[0] again.
end_frame_lock1_on_slot0(t) ==
    /\ pc[t] = "ef_lock1"
    /\ Free(FrameLock(0))
    /\ lockOwner' = Acquire(lockOwner, FrameLock(0), t)
    /\ pc' = [pc EXCEPT ![t] = "ef_swap"]
    /\ UNCHANGED <<devVars, frameVars, listVars, allocVars, gpuVars, resVars,
                   histVars, tdVars, callVars>>

\* let mut frame1 = self.frames[1].lock();
end_frame_lock1(t) ==
    /\ pc[t] = "ef_lock1"
    /\ Free(FrameLock(1))
    /\ lockOwner' = Acquire(lockOwner, FrameLock(1), t)
    /\ pc' = [pc EXCEPT ![t] = "ef_swap"]
    /\ UNCHANGED <<devVars, frameVars, listVars, allocVars, gpuVars, resVars,
                   histVars, tdVars, callVars>>

\* Arc::get_mut(&mut frame1).unwrap(); mem::swap(..); both guards dropped.
end_frame_swap(t) ==
    /\ pc[t] = "ef_swap"
    /\ IF IsUnique(frames[1])
         THEN /\ frames' = swap_frames(frames)
              /\ pc' = [pc EXCEPT ![t] = "idle"]
         ELSE /\ frames' = frames
              /\ pc' = [pc EXCEPT ![t] = "ef_panicked"]
    /\ lockOwner' = Release(lockOwner, {FrameLock(0), FrameLock(1)})
    /\ UNCHANGED <<devVars, strong, handle, leaked, listVars, allocVars, gpuVars,
                   resVars, histVars, tdVars, callVars>>

\* The caller catches the panic of begin_frame / end_frame and goes on.
\* parking_lot's Mutex is not poisoned and the guards were dropped by the
\* unwinding, so nothing of the Device has changed.
panic_caught(t) ==
    /\ devState = "ready"
    /\ Panicked(t)
    /\ pc' = [pc EXCEPT ![t] = "idle"]
    /\ UNCHANGED <<devVars, frameVars, listVars, allocVars, gpuVars, lockOwner,
                   resVars, histVars, tdVars, callVars>>

\* A Frame goes out of scope without Frame::end, at the end of its scope or
\* while a panic unwinds its thread: Frame has no Drop impl, so only its
\* fields are dropped, the Arc<DeviceFrame> among them.
frame_dropped(t) ==
    /\ devState = "ready"
    /\ pc[t] = "idle" \/ Panicked(t)
    /\ handle[t] # 0
    /\ strong' = [strong EXCEPT ![handle[t]] = @ - 1]
    /\ handle' = [handle EXCEPT ![t] = 0]
    /\ abandoned' = "dropped"
    /\ UNCHANGED <<devVars, frames, leaked, listVars, allocVars, gpuVars, threadVars,
                   resVars, beginCount, prevCtx, tdVars, callVars>>

\* A Frame is leaked (mem::forget): its Arc is never released.
frame_forgotten(t) ==
    /\ Idle(t)
    /\ handle[t] # 0
    /\ leaked' = [leaked EXCEPT ![handle[t]] = @ + 1]
    /\ handle' = [handle EXCEPT ![t] = 0]
    /\ abandoned' = "leaked"
    /\ UNCHANGED <<devVars, frames, strong, listVars, allocVars, gpuVars, threadVars,
                   resVars, beginCount, prevCtx, tdVars, callVars>>

\* ------------------------------------------------------ Drop for Device
\* Mutant: the allocators are cleaned up before the drop lists.
DropStepsAllocatorsFirst ==
    << <<"device_wait_idle", 0>>, <<"lock_allocators", 0>>,
       <<"cleanup_memory", 0>>, <<"cleanup_descriptors", 0>>, <<"cleanup_current", 0>>,
       <<"reset", 0>>, <<"free", 0>>, <<"reset", 1>>, <<"free", 1>>,
       <<"destroy_device", 0>> >>

\* The statements of Drop::drop in program order, <<step, frames index>>.
DropSteps ==
    << <<"device_wait_idle", 0>>, <<"lock_allocators", 0>>, <<"cleanup_current", 0>>,
       <<"reset", 0>>, <<"free", 0>>, <<"reset", 1>>, <<"free", 1>>,
       <<"cleanup_memory", 0>>, <<"cleanup_descriptors", 0>>,
       <<"destroy_device", 0>> >>

AtDropStep(name) ==
    /\ devState = "teardown"
    /\ tdPc \in DOMAIN DropSteps
    /\ DropSteps[tdPc][1] = name

DropAdvance ==
    /\ tdLog' = Append(tdLog, DropSteps[tdPc])
    /\ tdPc' = tdPc + 1

\* The GPU objects DeviceFrame::free destroys for frame context c;
\* destroy_command_pool also frees the pool's command buffers.
FreeObjs(c) ==
    {PoolObj(c), FenceObj(c, "main_cb"), FenceObj(c, "presentation_cb"),
     SemObj(c, "rendering_finished"), SemObj(c, "swapchain_acquired")}
        \cup {CbObj(c, cb) : cb \in CBs}

Destroy(objs) == [o \in DOMAIN destroys |-> IF o \in objs THEN destroys[o] + 1 ELSE destroys[o]]

\* The last Arc<Device> is dropped, by a thread that lets it go or by the
\* unwinding of a panic.  A Frame borrows the Device, so no Frame is alive
\* and no call on the Device is running; a thread whose call has panicked
\* runs no call.
drop_begin ==
    /\ devState = "ready"
    /\ \A t \in Threads : (pc[t] = "idle" \/ Panicked(t)) /\ handle[t] = 0
    /\ devState' = "teardown"
    /\ tdPc' = 1
    /\ UNCHANGED <<newPc, destroys, samplers, frameVars, listVars, allocVars, gpuVars,
                   threadVars, resVars, histVars, tdLog, callVars>>

\* unsafe { self.raw.device_wait_idle() }.unwrap() returns.
drop_wait_idle ==
    /\ AtDropStep("device_wait_idle")
    /\ DeviceIdle
    /\ DropAdvance
    /\ UNCHANGED <<devVars, frameVars, listVars, allocVars, gpuVars, threadVars,
                   resVars, histVars, callVars>>

\* device_wait_idle, or reset_command_pool inside the loop, fails: unwrap
\* panics inside drop.
drop_panic ==
    /\ \/ AtDropStep("device_wait_idle")
       \/ AtDropStep("reset")
    /\ devState' = "aborted"
    /\ UNCHANGED <<newPc, destroys, samplers, frameVars, listVars, allocVars, gpuVars,
                   threadVars, resVars, histVars, tdVars, callVars>>

\* let mut memory_allocator = ...lock(); let mut descriptor_allocator = ...lock();
drop_lock_allocators ==
    /\ AtDropStep("lock_allocators")
    /\ Free(MemoryLock) /\ Free(DescriptorLock)
    /\ lockOwner' = Acquire(Acquire(lockOwner, MemoryLock, DropOwner),
                            DescriptorLock, DropOwner)
    /\ DropAdvance
    /\ UNCHANGED <<devVars, frameVars, listVars, allocVars, gpuVars, pc,
                   resVars, histVars, callVars>>

\* self.current_drop_list.lock().cleanup(...)
drop_cleanup_current ==
    /\ AtDropStep("cleanup_current")
    /\ Free(CurrentLock)
    /\ cleanup(current_drop_list, ByTeardown)
    /\ current_drop_list' = DropListDefault
    /\ DropAdvance
    /\ UNCHANGED <<devVars, frameVars, drop_list, memory_allocator,
                   descriptor_allocator, gpuVars, threadVars, retiredIn, kindOf, histVars, callVars>>

\* let frame = frame.lock(); frame.reset(...).unwrap(): the pool is reset
\* and the frame's drop_list cleaned up.
drop_reset ==
    /\ AtDropStep("reset")
    /\ LET c == frames[DropSteps[tdPc][2]]
       IN /\ Free(FrameLock(DropSteps[tdPc][2])) /\ Free(ListLock(c))
          /\ lockOwner' = Acquire(lockOwner, FrameLock(DropSteps[tdPc][2]), DropOwner)
          /\ cleanup(drop_list[c], ByTeardown)
          /\ drop_list' = [drop_list EXCEPT ![c] = DropListDefault]
    /\ DropAdvance
    /\ UNCHANGED <<devVars, frameVars, current_drop_list, memory_allocator,
                   descriptor_allocator, gpuVars, pc, retiredIn, kindOf, histVars, callVars>>

\* frame.free(&self.raw); the loop iteration ends and the guard is dropped.
drop_free ==
    /\ AtDropStep("free")
    /\ destroys' = Destroy(FreeObjs(frames[DropSteps[tdPc][2]]))
    /\ lockOwner' = Release(lockOwner, {FrameLock(DropSteps[tdPc][2])})
    /\ DropAdvance
    /\ UNCHANGED <<devState, newPc, samplers, frameVars, listVars, allocVars, gpuVars,
                   pc, resVars, histVars, callVars>>

\* memory_allocator.cleanup(...)
drop_cleanup_memory ==
    /\ AtDropStep("cleanup_memory")
    /\ memory_allocator' = "cleaned"
    /\ DropAdvance
    /\ UNCHANGED <<devVars, frameVars, listVars, descriptor_allocator, lateReturn, lastCleanup,
                   gpuVars, threadVars, resVars, histVars, callVars>>

\* descriptor_allocator.cleanup(...)
drop_cleanup_descriptors ==
    /\ AtDropStep("cleanup_descriptors")
    /\ descriptor_allocator' = "cleaned"
    /\ DropAdvance
    /\ UNCHANGED <<devVars, frameVars, listVars, memory_allocator, lateReturn, lastCleanup,
                   gpuVars, threadVars, resVars, histVars, callVars>>

\* self.raw.destroy_device(None); drop returns and the guards are dropped.
drop_destroy_device ==
    /\ AtDropStep("destroy_device")
    /\ destroys' = Destroy({DeviceObj})
    /\ devState' = "gone"
    /\ lockOwner' = Release(lockOwner, {MemoryLock, DescriptorLock})
    /\ DropAdvance
    /\ UNCHANGED <<newPc, samplers, frameVars, listVars, allocVars, gpuVars, pc, resVars, histVars, callVars>>

\* ------------------------------------------------------- specification
Driver == {"t1"}

\* The steps of begin_frame and end_frame.
BeginEndStep(t) ==
    \/ begin_frame_lock(t)
    \/ begin_frame_get_mut(t)
    \/ begin_frame_wait(t)
    \/ begin_frame_wait_fail(t)
    \/ begin_frame_lock_memory(t)
    \/ begin_frame_lock_descriptor(t)
    \/ begin_frame_reset_pool(t)
    \/ begin_frame_reset_pool_fail(t)
    \/ begin_frame_cleanup(t)
    \/ begin_frame_lock_frame_list(t)
    \/ begin_frame_swap(t)
    \/ begin_frame_return(t)
    \/ end_frame_drop(t)
    \/ end_frame_lock0(t)
    \/ end_frame_get_mut0(t)
    \/ end_frame_lock1(t)
    \/ end_frame_swap(t)
    \/ panic_caught(t)

\* The frame calls of a thread.
FrameStep(t) ==
    \/ \E cb \in CBs : submit(t, cb)
    \/ submit_fail(t)
    \/ caller_continues(t)
    \/ BeginEndStep(t)
    \/ frame_dropped(t)
    \/ frame_forgotten(t)

\* The frame calls and the retire calls of a thread.
ThreadStep(t, maxRes) ==
    \/ with_drop_list_lock(t, maxRes)
    \/ with_drop_list(t, maxRes)
    \/ FrameStep(t)

\* Construction and teardown of the Device.
LifecycleStep ==
    \/ device_new_call
    \/ device_new_fail
    \/ drop_begin
    \/ drop_wait_idle
    \/ drop_panic
    \/ drop_lock_allocators
    \/ drop_cleanup_current
    \/ drop_reset
    \/ drop_free
    \/ drop_cleanup_memory
    \/ drop_cleanup_descriptors
    \/ drop_destroy_device

\* Construction, the queue, and teardown.
DeviceStep == LifecycleStep \/ \E c \in Ctx, cb \in CBs : gpu_complete(c, cb)

\* One thread drives the Device.
Next == DeviceStep \/ \E t \in Driver : ThreadStep(t, MaxRes)
Spec == Init /\ [][Next]_vars

\* Two threads share the Device.
NextMT == DeviceStep \/ \E t \in Threads : ThreadStep(t, MaxResMT)
SpecMT == Init /\ [][NextMT]_vars

\* The allocator calls of a thread.
AllocatorStep(t) ==
    \/ \E req \in Requests : allocate_memory_lock(t, req)
    \/ allocate_memory_ok(t)
    \/ allocate_memory_fail(t)
    \/ allocate_descriptors_lock(t)
    \/ allocate_descriptors_ok(t)
    \/ allocate_descriptors_fail(t)

\* One thread drives the frames of the Device and allocates from it.
NextAlloc == DeviceStep \/ \E t \in Driver : (FrameStep(t) \/ AllocatorStep(t))
SpecAlloc == Init /\ [][NextAlloc]_vars

\* Two threads share the Device: each retires, begins and ends frames and
\* allocates; neither submits.
NextLocks ==
    \/ LifecycleStep
    \/ \E t \in Threads :
          \/ with_drop_list_lock(t, MaxResMT)
          \/ with_drop_list(t, MaxResMT)
          \/ BeginEndStep(t)
          \/ AllocatorStep(t)
          \/ caller_continues(t)
SpecLocks == Init /\ [][NextLocks]_vars

\* A DropList used on its own.
NextDL == (\E kind \in Kinds : droplist_drop(kind)) \/ droplist_cleanup
SpecDL == Init /\ [][NextDL]_vars

\* ================================================================ claims
Resources == DOMAIN retiredIn

\* Positions of begin_frame after its exclusivity check, after its fence
\* wait, and after its reset step.
PastCheck ==
    {"bf_wait", "bf_lock_memory", "bf_lock_descriptor", "bf_reset_pool", "bf_cleanup",
     "bf_lock_frame_list", "bf_swap", "bf_return"}
PastWait == PastCheck \ {"bf_wait"}
PastReset == {"bf_lock_frame_list", "bf_swap", "bf_return"}

\* Number of begin_frame calls whose reset step has run.
ResetsDone ==
    beginCount + (IF \E t \in Threads : pc[t] \in PastReset THEN 1 ELSE 0)

\* Frame numbers of the work the GPU is executing.
Executing == {pending[c][cb] : c \in Ctx, cb \in CBs} \ {0}

\* C1: a resource retired after begin_frame call N returned and before
\* call N+1 is destroyed by the reset step of begin_frame call N+2: once
\* that reset step has run the resource has been destroyed by it, and no
\* other frame reset destroys it.
C1_DestroyedByResetTwoCallsLater ==
    \A r \in Resources :
        /\ ResetsDone >= retiredIn[r] + 2 => destroyedBy[r] = ByReset(retiredIn[r] + 2)
        /\ destroyedBy[r][1] = "reset" => destroyedBy[r] = ByReset(retiredIn[r] + 2)

\* C2: a resource retired during cycle k is destroyed only by the reset
\* step of a begin_frame call numbered k+2 or more, or by Drop for Device;
\* at the step that destroys it the GPU is executing no work submitted in
\* cycle k or k+1; and when Drop for Device has finished every retired
\* resource has been destroyed.
C2_NotBeforeTwoCyclesNorWhileExecuting ==
    /\ [][\A r \in Resources :
            (r \in DOMAIN destroyCount' /\ destroyCount'[r] > destroyCount[r]) =>
                /\ Executing \cap {retiredIn[r], retiredIn[r] + 1} = {}
                /\ \/ destroyedBy'[r] = ByTeardown
                   \/ /\ destroyedBy'[r][1] = "reset"
                      /\ destroyedBy'[r][2] >= retiredIn[r] + 2]_vars
    /\ [](devState = "gone" => \A r \in Resources : destroyCount[r] >= 1)

\* Witness of C2: Drop for Device has finished and has destroyed a resource
\* that was retired while a frame cycle was running.
C2_Witness ==
    /\ devState = "gone"
    /\ \E r \in Resources :
          retiredIn[r] >= 1 /\ destroyedBy[r] = ByTeardown /\ destroyCount[r] = 1

\* C3: when begin_frame is about to return Ok, current_drop_list is empty
\* and the list of the frame in slot 0 holds exactly the resources retired
\* since the previous begin_frame call.
C3_ListsExchangedAtReturn ==
    \A t \in Threads :
        pc[t] = "bf_return" =>
            /\ current_drop_list = DropListDefault
            /\ Entries(drop_list[frames[0]]) = {r \in Resources : retiredIn[r] = beginCount}

\* C4: end_frame rotates the slots: when it completes, the DeviceFrame that
\* was in slot 1 is in slot 0 and the one that was in slot 0 is in slot 1
\* (so the mapping differs after one end_frame and is back after two).
C4_EndFrameSwapsSlots ==
    [][\A t \in Threads :
          (pc[t] = "ef_swap" /\ pc'[t] = "idle") =>
              (frames'[0] = frames[1] /\ frames'[1] = frames[0])]_vars

\* C5: begin_frame resets the command pool of slot 0 and drains its list
\* only when no work submitted with that frame's command buffers is still
\* executing.
C5_NoResetWhileExecuting ==
    [][\A t \in Threads :
          (\/ pc[t] = "bf_reset_pool" /\ pc'[t] = "bf_cleanup"
           \/ pc[t] = "bf_cleanup" /\ pc'[t] = "bf_lock_frame_list") =>
              \A cb \in CBs : pending[frames[0]][cb] = 0]_vars

\* C6: from the end of its fence wait until it returns, begin_frame runs
\* with main_cb.fence and presentation_cb.fence of slot 0 both signaled
\* (so the pool reset, the list cleanup and the return all come after both
\* are signaled); and the first begin_frame on a fresh Device finds both
\* signaled, so its wait does not block.
C6_BothFencesSignaledBeforeReset ==
    \A t \in Threads :
        /\ pc[t] \in PastWait =>
              (fence[frames[0]]["main_cb"] /\ fence[frames[0]]["presentation_cb"])
        /\ (pc[t] = "bf_wait" /\ beginCount = 0) =>
              (fence[frames[0]]["main_cb"] /\ fence[frames[0]]["presentation_cb"])

\* Witness of C6: a later begin_frame is blocked in its wait because
\* presentation_cb.fence is unsignaled although main_cb.fence is signaled.
C6_Witness ==
    \E t \in Threads :
        /\ pc[t] = "bf_wait"
        /\ beginCount >= 1
        /\ fence[frames[0]]["main_cb"]
        /\ ~fence[frames[0]]["presentation_cb"]

\* Frames open: held by a thread, or leaked.
OpenFrames ==
    Cardinality({t \in Threads : handle[t] # 0}) + leaked[1] + leaked[2]

\* C7: at most one frame is open, and a begin_frame call gets past its
\* exclusivity check only while no frame is open (a call made while one is
\* open panics instead).
C7_AtMostOneOpenFrame ==
    /\ OpenFrames <= 1
    /\ \A t \in Threads : pc[t] \in PastCheck => OpenFrames = 0

\* Witness of C7: a thread's begin_frame has panicked while another thread
\* holds the open Frame.
C7_Witness ==
    \E t, u \in Threads :
        t # u /\ pc[t] = "bf_panicked" /\ handle[u] # 0 /\ OpenFrames = 1

\* C8 as claimed: after a Frame was given up without Frame::end (dropped or
\* leaked), no begin_frame gets past its exclusivity check.
C8_AbandonedFrameBlocksBegin ==
    \A t \in Threads : pc[t] \in PastCheck => abandoned = "none"

\* C8 as amended: after a Frame was leaked without Frame::end no begin_frame
\* gets past its exclusivity check; after a Frame was dropped without
\* Frame::end its Arc reference is released, so the check of the next
\* begin_frame finds the frame unshared.
C8_LeakedFrameBlocksBegin ==
    /\ \A t \in Threads : pc[t] \in PastCheck => abandoned # "leaked"
    /\ (abandoned = "dropped" /\ \A t \in Threads : handle[t] = 0) =>
          strong[frames[0]] = 1

\* Witness of C8: a Frame was leaked and the next begin_frame has panicked.
C8_Witness ==
    \E t \in Threads : pc[t] = "bf_panicked" /\ abandoned = "leaked"

\* C9: no GPU object is destroyed twice, and when a Device that never began
\* a frame has been torn down, each command pool, fence, semaphore and
\* sampler it created has been destroyed once.
C9_EveryObjectDestroyedOnce ==
    /\ \A o \in DOMAIN destroys : destroys[o] <= 1
    /\ (devState = "gone" /\ beginCount = 0) =>
          \A o \in DOMAIN destroys :
              o[1] \in {"command_pool", "fence", "semaphore", "sampler"} =>
                  destroys[o] = 1

\* Position of a step in the log of Drop for Device, 0 if it has not run.
Pos(step) ==
    IF \E i \in DOMAIN tdLog : tdLog[i] = step
        THEN CHOOSE i \in DOMAIN tdLog : tdLog[i] = step
        ELSE 0

\* Step b has not run, or step a ran before it.
Before(a, b) == Pos(b) # 0 => (Pos(a) # 0 /\ Pos(a) < Pos(b))

ListCleanups == {<<"cleanup_current", 0>>, <<"reset", 0>>, <<"reset", 1>>}
AllocatorCleanups == {<<"cleanup_memory", 0>>, <<"cleanup_descriptors", 0>>}

\* C10: in Drop for Device the idle wait comes before every other step;
\* current_drop_list is cleaned up before the frames; each frame is reset
\* before it is freed, slot 0 before slot 1; both allocators are cleaned up
\* only after every drop-list cleanup and every free; and no memory block
\* or descriptor set is handed to an allocator after that allocator's
\* cleanup.
C10_TeardownOrder ==
    /\ tdLog # << >> => tdLog[1] = <<"device_wait_idle", 0>>
    /\ Before(<<"cleanup_current", 0>>, <<"reset", 0>>)
    /\ Before(<<"reset", 0>>, <<"free", 0>>)
    /\ Before(<<"free", 0>>, <<"reset", 1>>)
    /\ Before(<<"reset", 1>>, <<"free", 1>>)
    /\ \A a \in AllocatorCleanups :
          /\ \A l \in ListCleanups : Before(l, a)
          /\ Before(<<"free", 1>>, a)
    /\ ~lateReturn
    /\ (memory_allocator = "cleaned" \/ descriptor_allocator = "cleaned") =>
          /\ current_drop_list = DropListDefault
          /\ \A c \in Ctx : drop_list[c] = DropListDefault

\* Witness of C10: Drop for Device has finished after handing a retired
\* memory block and a retired descriptor set back to the allocators.
C10_Witness ==
    /\ devState = "gone"
    /\ \E r, q \in Resources :
          /\ kindOf[r] = "memory" /\ destroyedBy[r] = ByTeardown
          /\ kindOf[q] = "descriptor_set" /\ destroyedBy[q] = ByTeardown

\* The resources held by the caller's own DropList, collection by collection.
HeldAs(kind) ==
    CASE kind = "image" -> own_list.images
      [] kind = "buffer" -> own_list.buffers
      [] kind = "memory" -> own_list.memory
      [] kind = "descriptor_set" -> own_list.descriptors

\* A drop_* step appends the new entry to the collection of its kind,
\* leaves the other collections alone and destroys nothing.
DropAppendsOnly ==
    /\ \A kind \in Kinds :
          HeldAs(kind)' =
             IF kindOf'[Len(kindOf')] = kind
                 THEN Append(HeldAs(kind), Len(kindOf'))
                 ELSE HeldAs(kind)
    /\ \A r \in Resources : destroyCount'[r] = destroyCount[r]

\* A cleanup step destroys each entry held once and leaves the list empty.
CleanupDrainsAll ==
    /\ own_list' = DropListDefault
    /\ \A r \in Resources :
          destroyCount'[r] =
             destroyCount[r] + (IF r \in Entries(own_list) THEN 1 ELSE 0)

\* C11: on a DropList, a drop_* call appends its argument to the collection
\* of its kind and removes or destroys nothing; a cleanup call destroys
\* every entry held exactly once and leaves the four collections empty (so
\* a cleanup that follows a cleanup destroys nothing); no entry is ever
\* destroyed twice, and an entry is held exactly until it is destroyed.
C11_AppendOnlyThenDrainedOnce ==
    /\ [][IF kindOf' # kindOf THEN DropAppendsOnly ELSE CleanupDrainsAll]_vars
    /\ [](\A r \in Resources :
              /\ destroyCount[r] <= 1
              /\ destroyCount[r] = 0 <=> r \in Entries(own_list)
              /\ Cardinality({kind \in Kinds : r \in Range(HeldAs(kind))}) <= 1)

\* Witness of C11: an entry of each of two collections has been destroyed
\* by one cleanup, and a later cleanup has run on the drained list.
C11_Witness ==
    /\ own_list = DropListDefault
    /\ lastCleanup = CleanupCalls(DropListDefault)
    /\ \E r, q \in Resources :
          /\ kindOf[r] # kindOf[q]
          /\ destroyCount[r] = 1 /\ destroyCount[q] = 1

\* C12: a cleanup call on an empty DropList makes no call at all: no
\* destroy_image, no destroy_buffer, no dealloc and no
\* descriptor_allocator.free.
C12_CleanupOfEmptyListMakesNoCall ==
    [][(kindOf' = kindOf /\ own_list = DropListDefault) =>
          /\ lastCleanup'.destroy_image = 0
          /\ lastCleanup'.destroy_buffer = 0
          /\ lastCleanup'.dealloc = 0
          /\ lastCleanup'.free = 0]_vars

\* C13: a begin_frame call that follows a frame ended with Frame::end works
\* on the other DeviceFrame: the fences it waits on and the list it cleans
\* up are not those of the frame that was just ended.
C13_ConsecutiveFramesAlternate ==
    \A t \in Threads :
        (pc[t] \in PastCheck /\ prevCtx # 0 /\ abandoned = "none") =>
            frames[0] # prevCtx

\* The frame context whose DeviceFrame::new was running when Device::new
\* failed, 0 if the failing call was not one of DeviceFrame::new.
FailedFrameNew ==
    IF devState = "failed" THEN DeviceNewCalls[newPc][2][2] ELSE 0

\* C14: when a call inside DeviceFrame::new has failed, every object that
\* DeviceFrame::new call had created before it has been destroyed.
C14_FailedFrameCreationRollsBack ==
    FailedFrameNew \in Ctx =>
        \A o \in DOMAIN destroys : o[2] = FailedFrameNew => destroys[o] = 1

\* C15: a failing Frame::submit returns VulkanError wrapping the status
\* code of queue_submit2, and has queued nothing (no second attempt); a
\* failing allocate_memory returns MemoryAllocationFailed carrying the
\* allocator's error and the request it was called with; the two kinds are
\* different, and a thread that was returned an Err holds an error.
C15_ErrorKindsDiscriminated ==
    /\ [][\A t \in Threads :
            /\ (pc[t] = "idle" /\ pc'[t] = "returned") =>
                  /\ result'[t] \in {VulkanError(code) : code \in VkErrors}
                  /\ result'[t][1] # "MemoryAllocationFailed"
                  /\ pending' = pending /\ fence' = fence
            /\ (pc[t] = "am_alloc" /\ pc'[t] = "returned") =>
                  /\ result'[t][1] = "MemoryAllocationFailed"
                  /\ result'[t][2] \in AllocErrors
                  /\ result'[t][3] = request[t]
                  /\ request[t] \in Requests]_vars
    /\ [](\A t \in Threads : pc[t] = "returned" <=> result[t] # NoError)

\* Witness of C15: allocate_memory has failed for the second request while
\* a frame is open.
C15_Witness ==
    \E t \in Threads :
        /\ pc[t] = "returned"
        /\ handle[t] # 0
        /\ result[t] \in {MemoryAllocationFailed(err, "request_b") : err \in AllocErrors}

\* The collection of current_drop_list that holds resources of a kind.
CurrentAs(kind) ==
    CASE kind = "image" -> current_drop_list.images
      [] kind = "buffer" -> current_drop_list.buffers
      [] kind = "memory" -> current_drop_list.memory
      [] kind = "descriptor_set" -> current_drop_list.descriptors

\* A retire step appends the resource to current_drop_list and leaves the
\* frames, their lists and fences, and the allocators as they were.
RetireTouchesCurrentListOnly ==
    /\ \A kind \in Kinds :
          CurrentAs(kind)' =
             IF kindOf'[Len(kindOf')] = kind
                 THEN Append(CurrentAs(kind), Len(kindOf'))
                 ELSE CurrentAs(kind)
    /\ UNCHANGED <<frameVars, drop_list, gpuVars, memory_allocator,
                   descriptor_allocator>>
    /\ \A r \in Resources : destroyCount'[r] = destroyCount[r]

\* C16: a retire call can be made whether or not a frame is open and
\* cannot fail: an idle caller can always start it and, with the list
\* locked, always finishes it; it appends to current_drop_list only and
\* leaves both frames (open or not, lists, fences) and both allocators
\* unchanged.
C16_RetireAnytimeIntoCurrentList ==
    /\ [][kindOf' # kindOf => RetireTouchesCurrentListOnly]_vars
    /\ [](\A t \in Driver :
              /\ (Idle(t) /\ Len(retiredIn) < MaxRes) =>
                    ENABLED with_drop_list_lock(t, MaxRes)
              /\ pc[t] = "wdl_cb" => ENABLED with_drop_list(t, MaxRes))

\* Witness of C16: a resource retired while the frame that is still open
\* was open is held by current_drop_list.
C16_Witness ==
    \E t \in Driver, r \in Resources :
        /\ handle[t] # 0
        /\ beginCount >= 1
        /\ retiredIn[r] = beginCount
        /\ r \in Entries(current_drop_list)

\* The locks a thread holds.
HeldBy(t) == {l \in Locks : lockOwner[l] = t}

\* C17: a retire call holds the lock of current_drop_list and no other,
\* allocate_memory holds the lock of memory_allocator and no other; while
\* one thread is inside either call the other thread can enter the other
\* call at once, and both can finish.
C17_RetireAndAllocateDoNotContend ==
    \A t, u \in Threads :
        t # u =>
            /\ pc[t] = "wdl_cb" => HeldBy(t) = {CurrentLock}
            /\ pc[t] = "am_alloc" => HeldBy(t) = {MemoryLock}
            /\ (pc[t] = "wdl_cb" /\ Idle(u)) =>
                  \A req \in Requests : ENABLED allocate_memory_lock(u, req)
            /\ (pc[t] = "am_alloc" /\ Idle(u) /\ Len(retiredIn) < MaxResMT) =>
                  ENABLED with_drop_list_lock(u, MaxResMT)
            /\ (pc[t] = "wdl_cb" /\ pc[u] = "am_alloc") =>
                  /\ ENABLED with_drop_list(t, MaxResMT)
                  /\ ENABLED allocate_memory_ok(u)

\* Witness of C17: one thread is inside a retire call while the other is
\* inside allocate_memory.
C17_Witness ==
    \E t, u \in Threads : pc[t] = "wdl_cb" /\ pc[u] = "am_alloc"

\* The SamplerDescs of the cross product built at construction.
Precomputed == Filters \X MipmapModes \X AddressModes

\* C18: on a constructed Device get_sampler returns, for each of the 8
\* combinations of the cross product, the sampler created for it (a live
\* sampler, each combination having its own) and None for every
\* other SamplerDesc; and no Device operation changes the cache once the
\* Device is constructed.
C18_GetSamplerCoversCrossProduct ==
    /\ [](devState \in {"ready", "teardown"} =>
             /\ Cardinality(Precomputed) = 8
             /\ \A desc \in Precomputed :
                   /\ get_sampler(desc) = SamplerObj(desc)
                   /\ get_sampler(desc) \in DOMAIN destroys
                   /\ destroys[get_sampler(desc)] = 0
             /\ \A desc \in SamplerDescs \ Precomputed : get_sampler(desc) = None)
    /\ [][devState # "new" => samplers' = samplers]_vars

\* Witness of C18: on a Device that has begun a frame, a precomputed
\* combination is found and another one is not.
C18_Witness ==
    /\ devState = "ready"
    /\ beginCount >= 1
    /\ get_sampler(<<"LINEAR", "LINEAR", "CLAMP_TO_EDGE">>) # None
    /\ get_sampler(<<"CUBIC_EXT", "LINEAR", "CLAMP_TO_EDGE">>) = None
    /\ get_sampler(<<"LINEAR", "LINEAR", "MIRRORED_REPEAT">>) = None

\* The lock a thread inside a call is about to take, NoLock if none.
NoLock == <<"none", 0>>
Wants(t) ==
    CASE pc[t] = "bf_lock_memory" -> MemoryLock
      [] pc[t] = "bf_lock_descriptor" -> DescriptorLock
      [] pc[t] \in {"bf_cleanup", "bf_lock_frame_list"} -> ListLock(frames[0])
      [] pc[t] = "bf_swap" -> CurrentLock
      [] pc[t] = "ef_lock0" -> FrameLock(0)
      [] pc[t] = "ef_lock1" -> FrameLock(1)
      [] OTHER -> NoLock

\* An order of the locks: frames[0], frames[1], memory_allocator,
\* descriptor_allocator, a frame's drop_list, current_drop_list.
Rank(l) ==
    CASE l = FrameLock(0) -> 1
      [] l = FrameLock(1) -> 2
      [] l = MemoryLock -> 3
      [] l = DescriptorLock -> 4
      [] l \in {ListLock(c) : c \in Ctx} -> 5
      [] l = CurrentLock -> 6

\* A thread is inside a call, and a thread inside a call cannot take its
\* next step (the lock it needs is held).
Mid(t) == pc[t] \notin {"idle", "returned", "bf_panicked", "ef_panicked"}
OwnStep(t) == with_drop_list(t, MaxResMT) \/ BeginEndStep(t) \/ AllocatorStep(t)
Stuck(t) == Mid(t) /\ ~ENABLED OwnStep(t)

\* C19: begin_frame, end_frame, retire, allocate_memory and
\* allocate_descriptors take their locks in one order (a thread only
\* takes a lock that comes after every lock it holds), and whenever a
\* thread inside one of these calls cannot go on, another thread is inside
\* a call and can: no state has every thread waiting.
C19_NoDeadlockAmongDeviceCalls ==
    \A t \in Threads :
        /\ Wants(t) # NoLock => \A l \in HeldBy(t) : Rank(l) < Rank(Wants(t))
        /\ Stuck(t) => \E u \in Threads \ {t} : Mid(u) /\ ~Stuck(u)

\* Witness of C19: a thread in end_frame, having dropped its Frame, waits
\* for the lock of frames[0], which a begin_frame of the other thread holds
\* past its exclusivity check.
C19_Witness ==
    \E t, u \in Threads :
        /\ pc[t] = "ef_lock0" /\ Stuck(t)
        /\ pc[u] \in PastCheck /\ lockOwner[FrameLock(0)] = u

\* How many times DropList dl holds resource r.
Occurs(dl, r) ==
    LET Count(seq) == Cardinality({i \in DOMAIN seq : seq[i] = r})
    IN Count(dl.images) + Count(dl.buffers) + Count(dl.memory) + Count(dl.descriptors)

\* How many times the drop lists of the DeviceFrames in cs hold r.
RECURSIVE OccursInFrames(_, _)
OccursInFrames(cs, r) ==
    IF cs = {} THEN 0
    ELSE LET c == CHOOSE x \in cs : TRUE
         IN Occurs(drop_list[c], r) + OccursInFrames(cs \ {c}, r)

\* How many times the drop lists of the Device hold r.
Holdings(r) == Occurs(current_drop_list, r) + OccursInFrames(Ctx, r)

\* C20: no retired resource is ever destroyed twice (so none by a frame
\* reset and again by teardown); a retired resource that is not destroyed
\* is held by exactly one drop list of the Device, once, and a destroyed
\* one by none; and when Drop for Device has finished every retired
\* resource has been destroyed exactly once.
C20_EveryRetiredResourceDestroyedOnce ==
    \A r \in Resources :
        /\ destroyCount[r] <= 1
        /\ Holdings(r) = (IF destroyCount[r] = 0 THEN 1 ELSE 0)
        /\ devState = "gone" => destroyCount[r] = 1

\* Witness of C20: Drop for Device has finished after two frame cycles,
\* and has destroyed a resource retired before the first frame and one
\* retired after a begin_frame.
C20_Witness ==
    /\ devState = "gone"
    /\ beginCount >= 2
    /\ \E r, q \in Resources :
          /\ retiredIn[r] = 0 /\ destroyCount[r] = 1
          /\ retiredIn[q] >= 1 /\ destroyCount[q] = 1

\* A step in which the fence wait or the pool reset of begin_frame fails.
BeginFrameFails(t) ==
    pc[t] \in {"bf_wait", "bf_reset_pool"} /\ pc'[t] = "returned"

\* C21: when wait_for_fences or reset_command_pool fails inside
\* begin_frame, the caller is returned VulkanError with the status code;
\* no Frame is handed out and the Arc of the frame in slot 0 keeps its
\* single owner (so the exclusivity check of a later begin_frame passes);
\* no drop list is cleaned up or changed and nothing is destroyed; and the
\* thread holds no lock afterwards, the lock of frames[0] being free.
C21_FailedBeginFrameChangesNothing ==
    [][\A t \in Threads :
          BeginFrameFails(t) =>
              /\ result'[t] \in {VulkanError(code) : code \in VkErrors}
              /\ UNCHANGED <<frames, strong, handle, leaked, beginCount>>
              /\ handle'[t] = 0
              /\ strong'[frames'[0]] = 1
              /\ UNCHANGED <<drop_list, current_drop_list, lastCleanup, destroyCount>>
              /\ \A l \in Locks : lockOwner'[l] # t
              /\ lockOwner'[FrameLock(0)] = NoThread]_vars

\* Witness of C21: begin_frame has failed on a Device that had a frame
\* before and holds a retired resource in current_drop_list.
C21_Witness ==
    \E t \in Driver :
        /\ pc[t] = "returned"
        /\ handle[t] = 0
        /\ result[t] \in {VulkanError(code) : code \in VkErrors}
        /\ beginCount >= 1
        /\ current_drop_list # DropListDefault
        /\ lockOwner[FrameLock(0)] = NoThread

====
